---- MODULE Spec2Model ----
(***************************************************************************)
(* Model of the supervisor / research / writing workflow:                  *)
(*   src/src/state.py, src/src/workflow.py, src/src/agents/*.py            *)
(*                                                                         *)
(* Texts (str values) are finite sequences of tokens, so that the empty    *)
(* string is <<>> and formatting, stripping and prefix tests are computed. *)
(* The two external capabilities (chat completion, web search) are inputs  *)
(* chosen by the environment at every node invocation; a capability value  *)
(* says what the capability would answer IF the node calls it.             *)
(***************************************************************************)
EXTENDS Integers, Sequences, FiniteSets, TLC

VARIABLES state, pc, last, trace

vars == <<state, pc, last, trace>>

(* ------------------------------ bounds --------------------------------- *)
\* horizon of a run: no node is started once iteration has reached it
MaxIter == 6
\* number of node calls explored from an arbitrary input state
MaxCalls == 1
\* longest list the search capability answers with
MaxResults == 1
\* most lines in a synthesis answer of the completion capability
MaxLines == 2
\* number of supervisor calls made in a row on one state
MaxCoordCalls == 2

(* ------------------------------ texts ---------------------------------- *)
EmptyText == <<>>

\* lines a completion answer is made of: blank, indented heading, fact,
\* padded fact
Lines == { <<>>, <<" ", "#">>, <<"a">>, <<" ", "b", " ">> }

\* str.strip(): drop leading and trailing whitespace
RECURSIVE lstrip(_)
lstrip(s) == IF s # <<>> /\ Head(s) = " " THEN lstrip(Tail(s)) ELSE s

RECURSIVE rstrip(_)
rstrip(s) ==
  IF s # <<>> /\ s[Len(s)] = " " THEN rstrip(SubSeq(s, 1, Len(s) - 1)) ELSE s

strip(s) == rstrip(lstrip(s))

\* str.startswith("#")
startswith_hash(s) == s # <<>> /\ Head(s) = "#"

\* str(idx) of enumerate(search_results, 1)
IdxStr(i) == <<"1", "2", "3", "4", "5">>[i]

Errors == {"boom"}

\* str(n) for the small counts that are formatted into messages
NumStr(n) == <<"0", "1", "2", "3", "4", "5">>[n + 1]

\* "\n".join(lines)
RECURSIVE join_lines(_)
join_lines(ls) ==
  IF Len(ls) = 0 THEN <<>>
  ELSE IF Len(ls) = 1 THEN ls[1]
  ELSE ls[1] \o <<"\n">> \o join_lines(Tail(ls))

\* str.split("\n"): always at least one piece, the pieces hold no "\n"
RECURSIVE split_lines(_, _)
split_lines(s, cur) ==
  IF s = <<>> THEN <<cur>>
  ELSE IF Head(s) = "\n" THEN <<cur>> \o split_lines(Tail(s), <<>>)
  ELSE split_lines(Tail(s), Append(cur, Head(s)))

(* --------------------------- shared state ------------------------------ *)
END == "END"

\* AgentState as run_workflow builds it
initial_state(user_query) ==
  [ user_query     |-> user_query,
    task_type      |-> "unknown",
    gathered_facts |-> <<>>,
    draft_text     |-> EmptyText,
    next_agent     |-> "supervisor",
    messages       |-> <<>>,
    iteration      |-> 0 ]

\* a message a node returns: a plain dict, which carries no id yet (id 0)
new_message(content) == [id |-> 0, role |-> "assistant", content |-> content]

MaxOf(S) == IF S = {} THEN 0 ELSE CHOOSE m \in S : \A x \in S : x <= m

\* a slip in the channel declaration: plain list concatenation as reducer
add_messages_concat(left, right) == left \o right

\* reducer of the messages channel: a message of the update whose id is
\* already in the channel replaces that message in place, any other message
\* is appended, after getting a fresh id when it has none
RECURSIVE add_messages(_, _)
add_messages(left, right) ==
  IF right = <<>> THEN left
  ELSE
    LET m    == Head(right)
        ids  == {left[i].id : i \in 1..Len(left)}
                  \cup {right[i].id : i \in 1..Len(right)}
        m1   == IF m.id = 0 THEN [m EXCEPT !.id = MaxOf(ids) + 1] ELSE m
        hit  == {i \in 1..Len(left) : left[i].id = m1.id}
        left1 == IF hit # {}
                   THEN [i \in 1..Len(left) |->
                           IF i \in hit THEN m1 ELSE left[i]]
                   ELSE Append(left, m1)
    IN add_messages(left1, Tail(right))

\* the graph writes a node's returned dict into the channels: the reducer
\* for messages, plain overwrite for every other key
apply_update(st, out) ==
  [out EXCEPT !.messages = add_messages(st.messages, out.messages)]

(* --------------------------- capabilities ------------------------------ *)
NextAgents == {"research", "writing", END}
TaskTypes  == {"research", "writing", "combined", "complete"}

\* structured completion of the supervisor: a RouteDecision, or a failure
RouteDecision ==
  [ok : {TRUE}, next_agent : NextAgents, reasoning : {"why"},
   task_type : TaskTypes, err : {"none"}]

DecisionCaps ==
  RouteDecision \cup
  {[ok |-> FALSE, next_agent |-> END, reasoning |-> "why",
    task_type |-> "complete", err |-> e] : e \in Errors}

SeqsUpTo(S, n) == UNION {[1..k -> S] : k \in 0..n}

\* free-text completion: response.content, or a failure
SynthesisCaps ==
  {[ok |-> TRUE, content |-> join_lines(ls), err |-> "none"] :
      ls \in (SeqsUpTo(Lines, MaxLines) \ {<<>>})}
  \cup {[ok |-> FALSE, content |-> <<>>, err |-> e] : e \in Errors}

WritingCaps ==
  {[ok |-> TRUE, content |-> c, err |-> "none"] : c \in {<<>>, <<"a">>}}
  \cup {[ok |-> FALSE, content |-> <<>>, err |-> e] : e \in Errors}

\* one search result: a dict with content and url, or something else
SearchItems ==
  { [isdict |-> FALSE, content |-> <<>>, url |-> <<>>],
    [isdict |-> TRUE,  content |-> <<>>, url |-> <<"u">>],
    [isdict |-> TRUE,  content |-> <<"c">>, url |-> <<>>],
    [isdict |-> TRUE,  content |-> <<"c">>, url |-> <<"u">>] }

SearchCaps ==
  {[ok |-> TRUE, results |-> r, err |-> "none"] :
      r \in SeqsUpTo(SearchItems, MaxResults)}
  \cup {[ok |-> FALSE, results |-> <<>>, err |-> e] : e \in Errors}

(* ------------------------------ nodes ---------------------------------- *)
\* A node yields the dict it returns (out), the branch it took and the
\* number of capability calls it made.

\* a slip in the fallback: facts taken as the sign that the work is done
fallback_next_agent_stops(gathered_facts, draft_text) ==
  IF gathered_facts = <<>> THEN "research" ELSE END

\* a slip in the fallback: the two worker branches exchanged
fallback_next_agent_swapped(gathered_facts, draft_text) ==
  IF gathered_facts = <<>> THEN "writing"
  ELSE IF draft_text = EmptyText THEN "research"
  ELSE END

\* fallback routing of the supervisor's except branch
fallback_next_agent(gathered_facts, draft_text) ==
  IF gathered_facts = <<>> THEN "research"
  ELSE IF draft_text = EmptyText THEN "writing"
  ELSE END

\* a slip in the early return: the iteration read from the state is kept
supervisor_complete_stale(st) ==
  [ out |-> [st EXCEPT !.next_agent = END, !.task_type = "complete"],
    branch |-> "complete", llm_calls |-> 0, search_calls |-> 0 ]

\* early return of the supervisor when a draft exists: no model call, and
\* the returned dict carries the messages of the input state as they are
supervisor_complete(st) ==
  [ out |-> [st EXCEPT !.next_agent = END,
                       !.task_type = "complete",
                       !.iteration = st.iteration + 1],
    branch |-> "complete", llm_calls |-> 0, search_calls |-> 0 ]

\* a slip in the success return: the task type of the decision not copied
supervisor_decision_keeps_type(st, decision) ==
  [ out |-> [st EXCEPT
       !.next_agent = decision.next_agent,
       !.iteration = st.iteration + 1,
       !.messages = st.messages \o
         << new_message(<<"Supervisor routing to ", decision.next_agent,
                          ": ", decision.reasoning>>) >>],
    branch |-> "decision", llm_calls |-> 1, search_calls |-> 0 ]

\* the structured decision came back
supervisor_decision(st, decision) ==
  [ out |-> [st EXCEPT
       !.next_agent = decision.next_agent,
       !.task_type = decision.task_type,
       !.iteration = st.iteration + 1,
       !.messages = st.messages \o
         << new_message(<<"Supervisor routing to ", decision.next_agent,
                          ": ", decision.reasoning>>) >>],
    branch |-> "decision", llm_calls |-> 1, search_calls |-> 0 ]

\* a slip in the fallback: the task type of the input state kept
supervisor_fallback_keeps_type(st) ==
  LET next_agent == fallback_next_agent(st.gathered_facts, st.draft_text)
  IN [ out |-> [st EXCEPT
         !.next_agent = next_agent,
         !.iteration = st.iteration + 1,
         !.messages = st.messages \o
           << new_message(<<"Supervisor using fallback routing to ",
                            next_agent>>) >>],
       branch |-> "fallback", llm_calls |-> 1, search_calls |-> 0 ]

\* a slip in the fallback: the routing left by an earlier call is read as
\* the sign that research was done
supervisor_fallback_reads_routing(st) ==
  LET next_agent == IF st.next_agent = "research" THEN "writing"
                    ELSE fallback_next_agent(st.gathered_facts, st.draft_text)
  IN [ out |-> [st EXCEPT
         !.next_agent = next_agent,
         !.task_type = "unknown",
         !.iteration = st.iteration + 1,
         !.messages = st.messages \o
           << new_message(<<"Supervisor using fallback routing to ",
                            next_agent>>) >>],
       branch |-> "fallback", llm_calls |-> 1, search_calls |-> 0 ]

\* the structured decision call raised
supervisor_fallback(st) ==
  LET next_agent == fallback_next_agent(st.gathered_facts, st.draft_text)
  IN [ out |-> [st EXCEPT
         !.next_agent = next_agent,
         !.task_type = "unknown",
         !.iteration = st.iteration + 1,
         !.messages = st.messages \o
           << new_message(<<"Supervisor using fallback routing to ",
                            next_agent>>) >>],
       branch |-> "fallback", llm_calls |-> 1, search_calls |-> 0 ]

\* a slip: the draft check before the model call left out
supervisor_node_always_asks(st, cap) ==
  IF cap.ok THEN supervisor_decision(st, cap) ELSE supervisor_fallback(st)

supervisor_node(st, cap) ==
  IF st.draft_text # EmptyText THEN supervisor_complete(st)
  ELSE IF cap.ok THEN supervisor_decision(st, cap)
  ELSE supervisor_fallback(st)

\* a slip in the normalisation: the test for content left out
RECURSIVE source_facts_any_content(_, _)
source_facts_any_content(results, idx) ==
  IF idx > Len(results) THEN <<>>
  ELSE LET result == results[idx]
           fact == <<"Source ", IdxStr(idx), ": ">> \o result.content
                     \o (IF result.url # <<>>
                           THEN <<" (URL: ">> \o result.url \o <<")">>
                           ELSE <<>>)
       IN (IF result.isdict THEN <<fact>> ELSE <<>>)
            \o source_facts_any_content(results, idx + 1)

\* "Source {idx}: {content}" plus " (URL: {url})" for every dict result
\* with content; idx is the position in the search results, from 1
RECURSIVE source_facts(_, _)
source_facts(results, idx) ==
  IF idx > Len(results) THEN <<>>
  ELSE LET result == results[idx]
           fact == <<"Source ", IdxStr(idx), ": ">> \o result.content
                     \o (IF result.url # <<>>
                           THEN <<" (URL: ">> \o result.url \o <<")">>
                           ELSE <<>>)
       IN (IF result.isdict /\ result.content # <<>> THEN <<fact>> ELSE <<>>)
            \o source_facts(results, idx + 1)

\* the stripped lines of the answer that are neither blank nor a heading
RECURSIVE keep_facts(_)
keep_facts(ls) ==
  IF ls = <<>> THEN <<>>
  ELSE (IF strip(Head(ls)) # <<>> /\ ~startswith_hash(strip(Head(ls)))
          THEN <<strip(Head(ls))>> ELSE <<>>)
       \o keep_facts(Tail(ls))

synthesized_facts(content) == keep_facts(split_lines(content, <<>>))

\* a slip in the except branch: the sentinel left out of gathered_facts
research_error_no_facts(st, e, nllm) ==
  [ out |-> [st EXCEPT
       !.gathered_facts = <<>>,
       !.next_agent = "supervisor",
       !.iteration = st.iteration + 1,
       !.messages = st.messages \o
         << new_message(<<"Research encountered an error: ", e>>) >>],
    branch |-> "error", llm_calls |-> nllm, search_calls |-> 1 ]

\* the search or the completion raised: e is str(e), nllm the number of
\* completion calls made before
research_error(st, e, nllm) ==
  [ out |-> [st EXCEPT
       !.gathered_facts = << <<"Research error: ", e>> >>,
       !.next_agent = "supervisor",
       !.iteration = st.iteration + 1,
       !.messages = st.messages \o
         << new_message(<<"Research encountered an error: ", e>>) >>],
    branch |-> "error", llm_calls |-> nllm, search_calls |-> 1 ]

\* a slip in the no-results branch: an empty list instead of the sentinel
research_no_results_clears(st) ==
  [ out |-> [st EXCEPT
       !.gathered_facts = <<>>,
       !.next_agent = "supervisor",
       !.iteration = st.iteration + 1,
       !.messages = st.messages \o
         << new_message(
              <<"Research completed but no relevant results found.">>) >>],
    branch |-> "no_results", llm_calls |-> 0, search_calls |-> 1 ]

\* no search result had content: no completion call
research_no_results(st) ==
  [ out |-> [st EXCEPT
       !.gathered_facts =
         << <<"No relevant information found for this query.">> >>,
       !.next_agent = "supervisor",
       !.iteration = st.iteration + 1,
       !.messages = st.messages \o
         << new_message(
              <<"Research completed but no relevant results found.">>) >>],
    branch |-> "no_results", llm_calls |-> 0, search_calls |-> 1 ]

\* a slip in the success return: the source records not used when the
\* synthesis holds no fact
research_found_no_raw(st, gathered_facts, content) ==
  LET synthesized == synthesized_facts(content)
  IN [ out |-> [st EXCEPT
         !.gathered_facts = synthesized,
         !.next_agent = "supervisor",
         !.iteration = st.iteration + 1,
         !.messages = st.messages \o
           << new_message(<<"Research completed. Found ",
                            NumStr(Len(synthesized)), " key facts.">>) >>],
       branch |-> IF synthesized # <<>> THEN "synthesized" ELSE "raw",
       llm_calls |-> 1, search_calls |-> 1 ]

\* the synthesis came back with content: its facts replace gathered_facts,
\* or the source records do when it holds no fact
research_found(st, gathered_facts, content) ==
  LET synthesized == synthesized_facts(content)
  IN [ out |-> [st EXCEPT
         !.gathered_facts =
            IF synthesized # <<>> THEN synthesized ELSE gathered_facts,
         !.next_agent = "supervisor",
         !.iteration = st.iteration + 1,
         !.messages = st.messages \o
           << new_message(<<"Research completed. Found ",
                            NumStr(Len(synthesized)), " key facts.">>) >>],
       branch |-> IF synthesized # <<>> THEN "synthesized" ELSE "raw",
       llm_calls |-> 1, search_calls |-> 1 ]

\* a slip in the node: a failed search issued a second time before giving up
research_node_retries_search(st, search, llm) ==
  IF ~search.ok
    THEN [research_error(st, search.err, 0) EXCEPT !.search_calls = 2]
  ELSE LET gathered_facts == source_facts(search.results, 1)
       IN IF gathered_facts # <<>>
            THEN IF ~llm.ok THEN research_error(st, llm.err, 1)
                 ELSE research_found(st, gathered_facts, llm.content)
            ELSE research_no_results(st)

research_node(st, search, llm) ==
  IF ~search.ok THEN research_error(st, search.err, 0)
  ELSE LET gathered_facts == source_facts(search.results, 1)
       IN IF gathered_facts # <<>>
            THEN IF ~llm.ok THEN research_error(st, llm.err, 1)
                 ELSE research_found(st, gathered_facts, llm.content)
            ELSE research_no_results(st)

\* a slip in the success branch: the history entry left out
writing_success_silent(st, llm) ==
  [ out |-> [st EXCEPT
       !.draft_text = llm.content,
       !.next_agent = END,
       !.iteration = st.iteration + 1],
    branch |-> "written", llm_calls |-> 1, search_calls |-> 0 ]

\* the completion came back: the draft is its content, whatever it is
writing_success(st, llm) ==
  [ out |-> [st EXCEPT
       !.draft_text = llm.content,
       !.next_agent = END,
       !.iteration = st.iteration + 1,
       !.messages = st.messages \o
         << new_message(<<"Writing completed successfully.">>) >>],
    branch |-> "written", llm_calls |-> 1, search_calls |-> 0 ]

\* a slip in the except branch: the facts reset with the draft
writing_failure_drops_facts(st, llm) ==
  [ out |-> [st EXCEPT
       !.draft_text = <<"Error generating written content: ", llm.err>>,
       !.gathered_facts = <<>>,
       !.next_agent = END,
       !.iteration = st.iteration + 1,
       !.messages = st.messages \o
         << new_message(<<"Writing encountered an error: ", llm.err>>) >>],
    branch |-> "error", llm_calls |-> 1, search_calls |-> 0 ]

\* the completion raised
writing_failure(st, llm) ==
  [ out |-> [st EXCEPT
       !.draft_text = <<"Error generating written content: ", llm.err>>,
       !.next_agent = END,
       !.iteration = st.iteration + 1,
       !.messages = st.messages \o
         << new_message(<<"Writing encountered an error: ", llm.err>>) >>],
    branch |-> "error", llm_calls |-> 1, search_calls |-> 0 ]

\* a slip in the node: control handed back to the supervisor on success
writing_node_hands_back(st, llm) ==
  IF llm.ok
    THEN [writing_success(st, llm) EXCEPT !.out.next_agent = "supervisor"]
    ELSE writing_failure(st, llm)

writing_node(st, llm) ==
  IF llm.ok THEN writing_success(st, llm) ELSE writing_failure(st, llm)

(* ------------------------------ graph ---------------------------------- *)
\* the value of a state that has no next_agent key
Missing == "<missing>"

\* state.get("next_agent", "END")
get_next_agent(st) == IF st.next_agent = Missing THEN END ELSE st.next_agent

\* a slip in the default branch: an unknown value sent to research
route_supervisor_default_research(st) ==
  LET next_agent == get_next_agent(st)
  IN IF next_agent = "research" THEN "research"
     ELSE IF next_agent = "writing" THEN "writing"
     ELSE IF next_agent = END THEN "__end__"
     ELSE "research"

\* conditional routing out of the supervisor
route_supervisor(st) ==
  LET next_agent == get_next_agent(st)
  IN IF next_agent = "research" THEN "research"
     ELSE IF next_agent = "writing" THEN "writing"
     ELSE IF next_agent = END THEN "__end__"
     ELSE "__end__"

\* a slip in the wiring: the writing node wired back to the supervisor
next_node_writing_loops(node, st) ==
  IF node = "supervisor" THEN route_supervisor(st) ELSE "supervisor"

\* a slip in the wiring: the research node wired to the end
next_node_research_ends(node, st) ==
  IF node = "supervisor" THEN route_supervisor(st) ELSE "__end__"

\* edges of create_workflow: the node scheduled after `node` has run
next_node(node, st) ==
  IF node = "supervisor" THEN route_supervisor(st)
  ELSE IF node = "research" THEN "supervisor"
  ELSE "__end__"

entry_point == "supervisor"

Queries == {"q"}

\* what the search capability offered to a node answers: a failure, an
\* empty list, only dicts without content, or anything else
search_kind(search) ==
  IF ~search.ok THEN "fails"
  ELSE IF search.results = <<>> THEN "empty"
  ELSE IF \A i \in 1..Len(search.results) :
            search.results[i].isdict /\ search.results[i].content = <<>>
    THEN "contentless"
  ELSE "other"

\* a node that is given no search capability
no_search == [ok |-> TRUE, results |-> <<>>, err |-> "none"]

\* the decision field of an invocation that got no structured decision
no_decision == [next_agent |-> "none", task_type |-> "none"]

no_call == [node |-> "none", branch |-> "none", llm_calls |-> 0,
            search_calls |-> 0, llm_fails |-> FALSE, search |-> "none",
            all_failed |-> TRUE, decision |-> no_decision]

\* record of a node invocation after the record prev; llm_fails says whether
\* the completion capability offered to the node was a failing one, search
\* what the search capability offered to it answers, all_failed whether
\* every capability call made so far has failed, decision the structured
\* decision the supervisor got back from chain.invoke
called(prev, node, r, search, llm) ==
  [node |-> node, branch |-> r.branch, llm_calls |-> r.llm_calls,
   search_calls |-> r.search_calls, llm_fails |-> ~llm.ok,
   search |-> IF node = "research" THEN search_kind(search) ELSE "none",
   all_failed |-> /\ prev.all_failed
                  /\ (r.search_calls > 0 => ~search.ok)
                  /\ (r.llm_calls > 0 => ~llm.ok),
   decision |-> IF node = "supervisor" /\ r.branch = "decision"
                  THEN [next_agent |-> llm.next_agent,
                        task_type |-> llm.task_type]
                  ELSE no_decision]

(* ------------------- a run of run_workflow (Spec) ---------------------- *)
Init ==
  /\ state \in {initial_state(q) : q \in Queries}
  /\ pc = entry_point
  /\ last = no_call
  /\ trace = <<>>

Supervisor ==
  /\ pc = "supervisor"
  /\ state.iteration < MaxIter
  /\ \E cap \in DecisionCaps :
       LET r == supervisor_node(state, cap)
       IN /\ state' = apply_update(state, r.out)
          /\ last' = called(last, "supervisor", r, no_search, cap)
          /\ pc' = next_node("supervisor", apply_update(state, r.out))
  /\ trace' = Append(trace, "supervisor")

\* what the two capabilities hold ready for one research call; the answer of
\* the completion capability matters only when the node gets to call it
ResearchCaps ==
  {<<search, llm>> \in SearchCaps \X SynthesisCaps :
      \/ search.ok /\ source_facts(search.results, 1) # <<>>
      \/ llm = [ok |-> TRUE, content |-> <<"a">>, err |-> "none"]}

Research ==
  /\ pc = "research"
  /\ state.iteration < MaxIter
  /\ \E c \in ResearchCaps :
       LET r == research_node(state, c[1], c[2])
       IN /\ state' = apply_update(state, r.out)
          /\ last' = called(last, "research", r, c[1], c[2])
          /\ pc' = next_node("research", apply_update(state, r.out))
  /\ trace' = Append(trace, "research")

Writing ==
  /\ pc = "writing"
  /\ state.iteration < MaxIter
  /\ \E llm \in WritingCaps :
       LET r == writing_node(state, llm)
       IN /\ state' = apply_update(state, r.out)
          /\ last' = called(last, "writing", r, no_search, llm)
          /\ pc' = next_node("writing", apply_update(state, r.out))
  /\ trace' = Append(trace, "writing")

\* workflow.invoke returns and run_workflow hands the final state back
Return ==
  /\ pc = "__end__"
  /\ pc' = "returned"
  /\ UNCHANGED <<state, last, trace>>

Next == Supervisor \/ Research \/ Writing \/ Return

Spec == Init /\ [][Next]_vars

(* ------------- single node calls on any input (NodeSpec) --------------- *)
\* input states of a node: any AgentState, not only those a run produces
old_message == [id |-> 1, role |-> "user", content |-> <<"hello">>]

InputStates ==
  [ user_query     : Queries,
    task_type      : {"unknown", "combined", "complete"},
    gathered_facts : {<<>>, << <<"f1">>, <<"f2">> >>},
    draft_text     : {EmptyText, <<"d">>},
    next_agent     : {"supervisor", END},
    messages       : {<<>>, <<old_message>>},
    iteration      : {0, 3} ]

NodeInit ==
  /\ state \in InputStates
  /\ pc = "call"
  /\ last = no_call
  /\ trace = <<>>

CallSupervisor ==
  /\ Len(trace) < MaxCalls
  /\ \E cap \in DecisionCaps :
       LET r == supervisor_node(state, cap)
       IN /\ state' = apply_update(state, r.out)
          /\ last' = called(last, "supervisor", r, no_search, cap)
  /\ trace' = Append(trace, "supervisor")
  /\ UNCHANGED pc

CallResearch ==
  /\ Len(trace) < MaxCalls
  /\ \E c \in ResearchCaps :
       LET r == research_node(state, c[1], c[2])
       IN /\ state' = apply_update(state, r.out)
          /\ last' = called(last, "research", r, c[1], c[2])
  /\ trace' = Append(trace, "research")
  /\ UNCHANGED pc

CallWriting ==
  /\ Len(trace) < MaxCalls
  /\ \E llm \in WritingCaps :
       LET r == writing_node(state, llm)
       IN /\ state' = apply_update(state, r.out)
          /\ last' = called(last, "writing", r, no_search, llm)
  /\ trace' = Append(trace, "writing")
  /\ UNCHANGED pc

NodeNext == CallSupervisor \/ CallResearch \/ CallWriting

NodeSpec == NodeInit /\ [][NodeNext]_vars

(* ------- supervisor calls in a row, one capability (CoordSpec) --------- *)
\* what the supervisor hands to the structured completion
prompt_inputs(st) ==
  [ query     |-> st.user_query,
    has_facts |-> IF st.gathered_facts # <<>> THEN "Yes" ELSE "No",
    has_draft |-> IF st.draft_text # EmptyText THEN "Yes" ELSE "No",
    num_facts |-> Len(st.gathered_facts) ]

\* the invocation record, with the last question put to the capability and
\* its answer
asked(rec, prompt, answer) ==
  rec @@ ("prompt" :> prompt) @@ ("answer" :> answer)

CoordInit ==
  /\ state \in InputStates
  /\ pc = "call"
  /\ last = asked(no_call, "none", "none")
  /\ trace = <<>>

\* the capability is deterministic: asked the same question as the last
\* time, it gives the same answer
CoordCall ==
  /\ Len(trace) < MaxCoordCalls
  /\ \E cap \in DecisionCaps :
       /\ (last.llm_calls = 1 /\ last.prompt = prompt_inputs(state))
             => cap = last.answer
       /\ LET r == supervisor_node(state, cap)
              rec == called(last, "supervisor", r, no_search, cap)
          IN /\ state' = apply_update(state, r.out)
             /\ last' = IF r.llm_calls = 1
                          THEN asked(rec, prompt_inputs(state), cap)
                          ELSE asked(rec, last.prompt, last.answer)
  /\ trace' = Append(trace, "supervisor")
  /\ UNCHANGED pc

CoordNext == CoordCall

CoordSpec == CoordInit /\ [][CoordNext]_vars

(* -------- the routing decision read on any state (RouteSpec) ---------- *)
\* states the conditional edge may be read on: any next_agent value, or none
RouteStates ==
  [ user_query     : Queries,
    task_type      : {"unknown"},
    gathered_facts : {<<>>, << <<"f1">>, <<"f2">> >>},
    draft_text     : {EmptyText, <<"d">>},
    next_agent     : {"research", "writing", END, "supervisor", "bogus",
                      Missing},
    messages       : {<<>>, <<old_message>>},
    iteration      : {0, 3} ]

RouteInit ==
  /\ state \in RouteStates
  /\ pc = "route"
  /\ last = no_call
  /\ trace = <<>>

\* the conditional edge out of the supervisor is evaluated
Route ==
  /\ pc = "route"
  /\ pc' = next_node("supervisor", state)
  /\ UNCHANGED <<state, last, trace>>

RouteNext == Route \/ Research \/ Writing \/ Return

RouteSpec == RouteInit /\ [][RouteNext]_vars

(* ------------------------------ claims --------------------------------- *)
Returned == pc \in {"__end__", "returned"}

\* C1: every run reaches the terminate state and returns after finitely
\* many step invocations, whatever the capabilities answer.  Stated for the
\* explored horizon: a run that has made MaxIter step invocations is over.
C1_RunReturns == state.iteration >= MaxIter => Returned

C3_DraftShortCircuit ==
  [][ (state.draft_text # EmptyText /\ last'.node = "supervisor")
        => /\ state'.next_agent = END
           /\ state'.task_type = "complete"
           /\ last'.llm_calls = 0 ]_vars

\* the supervisor ran on a state with a draft and without facts while the
\* capability at hand was a failing one
C3_Witness ==
  /\ last.node = "supervisor" /\ last.branch = "complete" /\ last.llm_fails
  /\ state.draft_text # EmptyText /\ state.gathered_facts = <<>>
  /\ state.next_agent = END

\* the next step the fallback rule is said to give
C4_ClaimedNext(st) ==
  IF st.gathered_facts = <<>> THEN "research"
  ELSE IF st.draft_text = EmptyText THEN "writing"
  ELSE END

\* C4: when the structured decision call fails, next_agent depends on the
\* state only: research without facts, writing with facts and no draft; and
\* with a failing capability a state with facts and a draft gives END.
C4_FallbackRule ==
  [][ /\ (last'.node = "supervisor" /\ last'.branch = "fallback")
          => state'.next_agent = C4_ClaimedNext(state)
      /\ (last'.node = "supervisor" /\ last'.llm_fails
            /\ state.gathered_facts # <<>> /\ state.draft_text # EmptyText)
          => state'.next_agent = END ]_vars

\* the call failed on a state with facts and no draft: writing was chosen
C4_Witness ==
  /\ last.node = "supervisor" /\ last.branch = "fallback"
  /\ state.gathered_facts # <<>> /\ state.draft_text = EmptyText
  /\ state.next_agent = "writing"

\* C5: the writing node is terminal: once it has run, no further node runs
\* before run_workflow returns.
C5_WritingTerminal ==
  \A i \in 1..Len(trace) :
     trace[i] = "writing" => (i = Len(trace) /\ Returned)

\* the writing node ran with a failing completion and the run is over
C5_Witness ==
  /\ last.node = "writing" /\ last.llm_fails /\ pc = "returned"
  /\ trace[Len(trace)] = "writing"

\* scenario B: the first decision is research, the second is writing
ScenarioB ==
  /\ Len(trace) >= 4
  /\ trace[2] = "research" /\ trace[4] = "writing"

\* C6 as stated: in scenario B the steps are supervisor, research,
\* supervisor, writing, supervisor and the run ends with iteration = 5 and
\* five history entries.
C6_FiveSteps ==
  (pc = "returned" /\ ScenarioB)
    => /\ trace = <<"supervisor", "research", "supervisor", "writing",
                    "supervisor">>
       /\ state.iteration = 5
       /\ Len(state.messages) = 5

\* C6 amended: in scenario B the steps are supervisor, research, supervisor,
\* writing and the run ends with iteration = 4 and four history entries.
C6_FourSteps ==
  (pc = "returned" /\ ScenarioB)
    => /\ trace = <<"supervisor", "research", "supervisor", "writing">>
       /\ state.iteration = 4
       /\ Len(state.messages) = 4

\* a scenario B run that has returned with a draft written from facts
C6_Witness ==
  /\ pc = "returned" /\ ScenarioB
  /\ last.branch = "written" /\ state.draft_text # EmptyText
  /\ state.gathered_facts # <<>>

\* scenario A: the first decision of the supervisor is writing
ScenarioA == Len(trace) >= 2 /\ trace[2] = "writing"

\* C7: in scenario A the run is supervisor, writing and ends with a
\* non-empty draft, no facts and iteration = 2.
C7_DirectWriting ==
  (pc = "returned" /\ ScenarioA)
    => /\ trace = <<"supervisor", "writing">>
       /\ state.draft_text # EmptyText
       /\ state.gathered_facts = <<>>
       /\ state.iteration = 2

\* C8: in every state of a run the history has as many entries as node
\* invocations were made, which is the value of iteration.
C8_HistoryCountsSteps ==
  /\ Len(state.messages) = Len(trace)
  /\ Len(state.messages) = state.iteration

\* a run of four steps through research and writing has returned
C8_Witness ==
  /\ pc = "returned" /\ Len(trace) = 4 /\ Len(state.messages) = 4
  /\ last.node = "writing"

\* C9: a run starts with iteration = 0, and every node invocation, in every
\* branch, returns iteration = input iteration + 1.
C9_IterationPlusOne ==
  /\ \A q \in Queries : initial_state(q).iteration = 0
  /\ [][state'.iteration = state.iteration + 1]_vars

\* the early return of the supervisor took iteration from 3 to 4
C9_Witness ==
  /\ last.node = "supervisor" /\ last.branch = "complete"
  /\ state.iteration = 4

\* C10: every node invocation, in every branch, appends exactly one entry
\* to the history and keeps the earlier entries.
C10_OneEntryPerStep ==
  [][ /\ Len(state'.messages) = Len(state.messages) + 1
      /\ SubSeq(state'.messages, 1, Len(state.messages)) = state.messages
    ]_vars

\* C11: every invocation of the writing node, with or without facts and
\* whether the completion succeeds (with any text) or fails, returns a
\* non-empty draft and next_agent = END.
C11_DraftNeverEmpty ==
  [][ last'.node = "writing"
        => (state'.draft_text # EmptyText /\ state'.next_agent = END) ]_vars

\* the single-element findings an error leaves behind
C12_ErrorFindings == {<< <<"Research error: ", e>> >> : e \in Errors}

\* C12: when the search call or the completion call of the research node
\* fails, the node returns findings that are one entry holding the error
\* text, and next_agent = supervisor.
C12_ResearchErrorSentinel ==
  [][ (/\ last'.node = "research"
       /\ \/ last'.search = "fails"
          \/ last'.llm_calls = 1 /\ last'.llm_fails)
        => /\ state'.gathered_facts \in C12_ErrorFindings
           /\ Len(state'.gathered_facts) = 1
           /\ state'.next_agent = "supervisor" ]_vars

\* the search answered, the synthesis call was made and failed
C12_Witness ==
  /\ last.node = "research" /\ last.search = "other"
  /\ last.llm_calls = 1 /\ last.llm_fails
  /\ state.gathered_facts \in C12_ErrorFindings

\* C13: when the search answers with no result, or only with results whose
\* content is empty, the research node returns the one-element
\* no-information findings and next_agent = supervisor, and makes no
\* completion call.
C13_NoResultsSentinel ==
  [][ (last'.node = "research" /\ last'.search \in {"empty", "contentless"})
        => /\ state'.gathered_facts =
                << <<"No relevant information found for this query.">> >>
           /\ state'.next_agent = "supervisor"
           /\ last'.llm_calls = 0 ]_vars

\* the search answered with results that all lack content
C13_Witness ==
  /\ last.node = "research" /\ last.search = "contentless"
  /\ last.llm_calls = 0 /\ Len(state.gathered_facts) = 1

\* every entry of a occurs in b, in the same order
RECURSIVE IsSubseq(_, _)
IsSubseq(a, b) ==
  IF a = <<>> THEN TRUE
  ELSE IF b = <<>> THEN FALSE
  ELSE IF Head(a) = Head(b) THEN IsSubseq(Tail(a), Tail(b))
  ELSE IsSubseq(a, Tail(b))

\* C14 as stated: findings is append-only across a run: every entry present
\* before a step is present after it, in the same order, so a second
\* research invocation keeps the findings of the first.
C14_FindingsAppendOnly ==
  [][IsSubseq(state.gathered_facts, state'.gathered_facts)]_vars

\* C14 amended: findings is never cleared: the supervisor and the writing
\* node leave it as it is, every research invocation sets it to a non-empty
\* list of its own, and once non-empty it stays non-empty.
C14_FindingsNeverCleared ==
  [][ /\ (trace' # trace /\ last'.node # "research")
          => state'.gathered_facts = state.gathered_facts
      /\ (trace' # trace /\ last'.node = "research")
          => state'.gathered_facts # <<>>
      /\ state.gathered_facts # <<>> => state'.gathered_facts # <<>>
    ]_vars

\* a second research invocation of a run has just ended
C14_Witness ==
  /\ Len(trace) = 4 /\ trace[2] = "research" /\ trace[4] = "research"
  /\ last.node = "research" /\ state.gathered_facts # <<>>

\* C15: when every completion call and every search call of a run fails,
\* the run is supervisor, research, supervisor, writing and returns with
\* iteration = 4, the research error as findings and the writing error as
\* draft.
C15_AllCallsFail ==
  (pc = "returned" /\ last.all_failed)
    => /\ trace = <<"supervisor", "research", "supervisor", "writing">>
       /\ state.iteration = 4
       /\ \E e \in Errors :
            state.gathered_facts = << <<"Research error: ", e>> >>
       /\ \E e \in Errors :
            state.draft_text = <<"Error generating written content: ", e>>

\* a run in which every capability call failed has returned
C15_Witness ==
  /\ pc = "returned" /\ last.all_failed /\ last.node = "writing"
  /\ last.llm_fails /\ state.task_type = "unknown"

\* C16: with a deterministic completion capability, two supervisor
\* invocations in a row, no worker step in between, return the same
\* next_agent and the same task_type.
C16_CoordinatorIdempotent ==
  [][ (last.node = "supervisor" /\ last'.node = "supervisor")
        => /\ state'.next_agent = state.next_agent
           /\ state'.task_type = state.task_type ]_vars

\* the supervisor asked the capability twice and routed to research twice
C16_Witness ==
  /\ Len(trace) = 2 /\ last.node = "supervisor" /\ last.branch = "fallback"
  /\ state.next_agent = "research" /\ Len(state.messages) >= 2

\* C17: when the routing decision is read, only next_agent = research and
\* next_agent = writing dispatch to a worker; END, a missing next_agent and
\* any other value stop the run, which returns the state as it is.
C17_UnknownRouteStops ==
  [][ /\ pc = "route"
          => /\ state' = state
             /\ pc' = IF state.next_agent = "research" THEN "research"
                       ELSE IF state.next_agent = "writing" THEN "writing"
                       ELSE "__end__"
      /\ pc = "__end__" => (pc' = "returned" /\ state' = state) ]_vars

\* a state whose next_agent is neither a worker nor END was routed and the
\* run returned without running a node
C17_Witness ==
  /\ pc = "returned" /\ trace = <<>>
  /\ state.next_agent \notin {"research", "writing", END}

\* C18: every node leaves user_query as it is; task_type is changed only by
\* the supervisor, gathered_facts only by the research node and draft_text
\* only by the writing node.
C18_SingleWriter ==
  [][ /\ state'.user_query = state.user_query
      /\ last'.node # "supervisor" => state'.task_type = state.task_type
      /\ last'.node # "research"
           => state'.gathered_facts = state.gathered_facts
      /\ last'.node # "writing" => state'.draft_text = state.draft_text
    ]_vars

\* the writing node failed on a state that had facts and a task type
C18_Witness ==
  /\ last.node = "writing" /\ last.branch = "error"
  /\ state.gathered_facts # <<>> /\ state.task_type = "combined"

\* the step the loop of the specification runs on a next_step value
C19_LoopDispatch(next_step) ==
  IF next_step \in {"supervisor", "research", "writing"} THEN next_step
  ELSE "__end__"

\* C19: the graph runs the same steps as a loop that dispatches on the
\* current next_agent alone: in every state of a run the node the graph has
\* scheduled is the one the loop's table gives for next_agent, and the run
\* has returned only where the table says stop.  The nodes and the
\* capability answers being the same, the step sequences and final states
\* are the same.
C19_GraphIsLoop ==
  IF pc = "returned" THEN C19_LoopDispatch(state.next_agent) = "__end__"
  ELSE pc = C19_LoopDispatch(state.next_agent)

\* the research node has handed back to the supervisor by next_agent and
\* the fixed edge alike
C19_Witness ==
  /\ Len(trace) = 2 /\ last.node = "research"
  /\ pc = "supervisor" /\ state.next_agent = "supervisor"

\* C20: the first step of a run is the supervisor; every research or
\* writing step comes right after a supervisor step whose next_agent named
\* it; every research step is followed by a supervisor step.
C20_StepOrdering ==
  /\ [] /\ trace = <<>> => pc = "supervisor"
        /\ trace # <<>> => trace[1] = "supervisor"
        /\ \A i \in 1..Len(trace) :
             /\ trace[i] \in {"research", "writing"}
                  => (i > 1 /\ trace[i - 1] = "supervisor")
             /\ trace[i] = "research"
                  => IF i < Len(trace) THEN trace[i + 1] = "supervisor"
                     ELSE pc = "supervisor"
  /\ [][ (trace' # trace /\ last'.node \in {"research", "writing"})
           => (last.node = "supervisor" /\ state.next_agent = last'.node)
       ]_vars

\* supervisor, research, supervisor have run and writing is scheduled
C20_Witness ==
  /\ trace = <<"supervisor", "research", "supervisor">>
  /\ pc = "writing" /\ state.next_agent = "writing"

\* C21: in every state of a run next_agent is one of supervisor, research,
\* writing, END and task_type one of unknown, research, writing, combined,
\* complete; after a supervisor invocation whose structured decision came
\* back, next_agent and task_type are the fields of that decision; and
\* right after any supervisor invocation next_agent is not supervisor.
C21_TypeInvariant ==
  /\ state.next_agent \in {"supervisor", "research", "writing", END}
  /\ state.task_type \in
       {"unknown", "research", "writing", "combined", "complete"}
  /\ (last.node = "supervisor" /\ last.branch = "decision")
       => /\ state.next_agent = last.decision.next_agent
          /\ state.task_type = last.decision.task_type
  /\ last.node = "supervisor" => state.next_agent # "supervisor"

\* after research the supervisor got the decision writing / combined
C21_Witness ==
  /\ Len(trace) = 3 /\ last.node = "supervisor" /\ last.branch = "decision"
  /\ last.decision = [next_agent |-> "writing", task_type |-> "combined"]
  /\ state.next_agent = "writing" /\ state.task_type = "combined"

\* C22: whenever the supervisor decides by the fallback, because the
\* structured decision call failed, the returned task_type is unknown:
\* in every invocation that takes the fallback, and for the fallback
\* return applied to any state, so for each of its outcomes research,
\* writing and END.
C22_FallbackTaskUnknown ==
  /\ \A st \in InputStates :
       /\ supervisor_fallback(st).out.task_type = "unknown"
       /\ supervisor_fallback(st).out.next_agent =
            fallback_next_agent(st.gathered_facts, st.draft_text)
  /\ \A n \in NextAgents : \E st \in InputStates :
       supervisor_fallback(st).out.next_agent = n
  /\ [][ (last'.node = "supervisor" /\ last'.llm_calls = 1
            /\ last'.llm_fails)
          => (last'.branch = "fallback" /\ state'.task_type = "unknown")
       ]_vars

\* the call failed on a state with facts at iteration 3: writing, unknown
C22_Witness ==
  /\ last.node = "supervisor" /\ last.branch = "fallback"
  /\ state.next_agent = "writing" /\ state.task_type = "unknown"
  /\ state.iteration = 4 /\ state.gathered_facts # <<>>

\* C23: no retry.  In one invocation the supervisor makes at most one
\* completion call and no search call, the research node exactly one search
\* call and at most one completion call, the writing node exactly one
\* completion call; a call that failed is not issued again; the failure
\* becomes a sentinel value (task_type unknown, the error findings, the
\* error draft) and the node still returns a next_agent and counts the
\* step.
C23_NoRetry ==
  [][ trace' # trace =>
      /\ last'.node = "supervisor"
           => (last'.llm_calls <= 1 /\ last'.search_calls = 0)
      /\ last'.node = "research"
           => (last'.search_calls = 1 /\ last'.llm_calls <= 1)
      /\ last'.node = "writing"
           => (last'.llm_calls = 1 /\ last'.search_calls = 0)
      /\ (last'.node = "supervisor" /\ last'.llm_calls = 1
            /\ last'.llm_fails)
           => /\ state'.task_type = "unknown"
              /\ state'.next_agent \in {"research", "writing"}
      /\ (last'.node = "research" /\ last'.search = "fails")
           => /\ last'.llm_calls = 0
              /\ \E e \in Errors :
                   state'.gathered_facts = << <<"Research error: ", e>> >>
              /\ state'.next_agent = "supervisor"
      /\ (last'.node = "research" /\ last'.llm_calls = 1
            /\ last'.llm_fails)
           => /\ \E e \in Errors :
                   state'.gathered_facts = << <<"Research error: ", e>> >>
              /\ state'.next_agent = "supervisor"
      /\ (last'.node = "writing" /\ last'.llm_fails)
           => /\ \E e \in Errors : state'.draft_text =
                   <<"Error generating written content: ", e>>
              /\ state'.next_agent = END
      /\ state'.iteration = state.iteration + 1 ]_vars

\* the search failed: one search call, no completion call, error findings
C23_Witness ==
  /\ last.node = "research" /\ last.search = "fails"
  /\ last.search_calls = 1 /\ last.llm_calls = 0
  /\ state.next_agent = "supervisor" /\ Len(state.gathered_facts) = 1

\* C24: in every state of a run a non-empty draft implies next_agent = END
\* and that the writing node has been invoked; the writing node is invoked
\* at most once in a run.
C24_DraftImpliesWritten ==
  /\ state.draft_text # EmptyText
       => /\ state.next_agent = END
          /\ \E i \in 1..Len(trace) : trace[i] = "writing"
  /\ Cardinality({i \in 1..Len(trace) : trace[i] = "writing"}) <= 1

\* a run through research has returned with a written draft
C24_Witness ==
  /\ pc = "returned" /\ state.draft_text = <<"a">>
  /\ state.next_agent = END /\ trace[Len(trace)] = "writing"
  /\ Len(trace) = 4

\* C25: in a run started by run_workflow the supervisor is never invoked on
\* a state with a non-empty draft, so its early return is never taken; the
\* writing node runs right after a supervisor invocation that decided by
\* the capability or by the fallback and leaves task_type as that
\* invocation set it, and so does the return of the run.
C25_ShortCircuitNeverTaken ==
  /\ [] /\ pc = "supervisor" => state.draft_text = EmptyText
        /\ last.branch # "complete"
  /\ [][ /\ (trace' # trace /\ last'.node = "supervisor")
              => state.draft_text = EmptyText
         /\ (trace' # trace /\ last'.node = "writing")
              => /\ last.node = "supervisor"
                 /\ last.branch \in {"decision", "fallback"}
                 /\ (last.branch = "decision"
                      => state.task_type = last.decision.task_type)
                 /\ (last.branch = "fallback"
                      => state.task_type = "unknown")
                 /\ state'.task_type = state.task_type
         /\ pc' = "returned" => state'.task_type = state.task_type
       ]_vars

\* the supervisor decided writing / research, the writing node ran and the
\* run returned with that task type
C25_Witness ==
  /\ pc = "returned" /\ last.node = "writing" /\ last.branch = "written"
  /\ state.task_type = "research" /\ state.draft_text # EmptyText
  /\ trace = <<"supervisor", "writing">>

\* C26: the fallback never gives END while the draft is empty, and a run
\* returns with an empty draft only when its last step is a supervisor
\* invocation whose structured decision came back with END.
C26_EmptyDraftOnlyByDecision ==
  /\ (last.node = "supervisor" /\ last.branch = "fallback"
        /\ state.draft_text = EmptyText)
       => state.next_agent # END
  /\ (pc = "returned" /\ state.draft_text = EmptyText)
       => /\ last.node = "supervisor" /\ last.branch = "decision"
          /\ last.decision.next_agent = END

\* the supervisor invocations made so far all decided by the fallback: each
\* of them left the fallback entry in the history
C27_OnlyFallback ==
  \A i \in 1..Len(trace) :
     trace[i] = "supervisor"
       => state.messages[i].content[1] = "Supervisor using fallback routing to "

\* C27: every research invocation, in each of its outcomes (synthesized
\* facts, source records, no results, error), returns at least one finding;
\* once gathered_facts is non-empty it stays non-empty; and in a run whose
\* supervisor decisions all come from the fallback the research node is
\* invoked at most once.
C27_AtLeastOneFinding ==
  /\ [] (C27_OnlyFallback
          => Cardinality({i \in 1..Len(trace) : trace[i] = "research"}) <= 1)
  /\ [][ /\ (trace' # trace /\ last'.node = "research")
              => /\ last'.branch \in
                      {"synthesized", "raw", "no_results", "error"}
                 /\ Len(state'.gathered_facts) >= 1
         /\ state.gathered_facts # <<>> => state'.gathered_facts # <<>>
       ]_vars

\* the run decided by the fallback alone: research ran once, its synthesis
\* held no fact and the source records became the findings
C27_Witness ==
  /\ pc = "returned" /\ C27_OnlyFallback
  /\ trace = <<"supervisor", "research", "supervisor", "writing">>
  /\ \E i \in 1..Len(state.messages) :
       state.messages[i].content =
         <<"Research completed. Found ", "0", " key facts.">>
  /\ Len(state.gathered_facts) = 1

====
